---- MODULE Spec2Model ----
(***************************************************************************)
(* A state-machine model of src/src/App.jsx: the React chat client that    *)
(* streams /generate_stream into a transcript, with cancel, resetChat and  *)
(* the two persisted settings.                                             *)
(*                                                                         *)
(* Text (input, message content) is a sequence of code points; the bytes   *)
(* of a response body are integers 0..255.  Settings values and the error  *)
(* banner are strings.  Every event handler and every resumption of an     *)
(* async function after an await is one atomic action: the page is         *)
(* single-threaded and React applies the queued state updates in order     *)
(* before the next event is dispatched.                                    *)
(***************************************************************************)
EXTENDS Integers, Sequences, FiniteSets, TLC

VARIABLES
  apiBase,      \* useLocalStorage("vc_apiBase", ...) value            (line 11)
  token,        \* useLocalStorage("vc_apiToken", ...) value           (line 12)
  store,        \* localStorage: key -> Item(string), or NoItem for an absent key
  storageThrows,\* whether this browser's localStorage throws on access
  mounted,      \* FALSE until the first effects have run
  input,        \* composer text                                       (line 13)
  messages,     \* the transcript                                      (line 14)
  isSending,    \* sending-state                                       (line 17)
  error,        \* error banner, "" when hidden                        (line 18)
  abortRef,     \* abortRef.current: a controller id, 0 for null       (line 19)
  sends,        \* the send() calls in flight: controller id -> its closure
  nSends,       \* send() calls accepted so far (the next controller's id - 1)
  resets,       \* resetChat() calls whose fetch has not settled
  nChunks,      \* body chunks delivered so far (bounds the exploration)
  nResets,      \* resetChat() calls made so far (bounds the exploration)
  lastOp        \* the handler or resumption that took the last step

vars == <<apiBase, token, store, storageThrows, mounted, input, messages,
          isSending, error, abortRef, sends, nSends, resets, nChunks,
          nResets, lastOp>>

settingsVars == <<apiBase, token, store, storageThrows, mounted>>

-----------------------------------------------------------------------------
(* Bounds of the exploration. *)

MaxSends == 2
MaxChunks == 2
MaxResets == 1

-----------------------------------------------------------------------------
(* Values. *)

NoItem == [present |-> FALSE, value |-> ""]
Item(v) == [present |-> TRUE, value |-> v]

KeyBase == "vc_apiBase"
KeyToken == "vc_apiToken"
Keys == {KeyBase, KeyToken}

\* import.meta.env.VITE_API_BASE / VITE_API_TOKEN: no .env in the repository,
\* so both are undefined, which `||` treats like "".
EnvBase == ""
EnvToken == ""

Or(a, b) == IF a # "" THEN a ELSE b

DefaultBase == Or(EnvBase, "http://localhost:8000")
DefaultToken == Or(EnvToken, "")

\* What the user may type into the two settings fields.
BaseValues == {"", "http://localhost:8000"}
TokenValues == {"", "t"}

\* What localStorage may hold for each key when the page is opened.
StoredBase == {NoItem, Item(""), Item("http://localhost:8000")}
StoredToken == {NoItem, Item(""), Item("t")}

\* Composer texts: empty, whitespace only, text with surrounding whitespace.
InputValues == {<<>>, <<12288>>, <<32, 104, 32>>}

\* 👋 and 🧹, the first code points of the two fixed assistant texts.
WelcomeText == <<128075>>
ResetText == <<129529>>

\* Body chunks a server may deliver: empty, ASCII "a", and the two bytes of
\* U+00E9, each in a chunk of its own.
ChunkValues == {<<>>, <<97>>, <<195>>, <<169>>}

\* Responses of /generate_stream and /reset.
OkResponse == [ok |-> TRUE, status |-> 200, body |-> TRUE]
BadResponses == {[ok |-> FALSE, status |-> 500, body |-> TRUE],
                 [ok |-> TRUE, status |-> 204, body |-> FALSE]}
ResetBadResponses == {[ok |-> FALSE, status |-> 500, body |-> TRUE]}

\* Exceptions: what a failed fetch or a broken body stream rejects with, what
\* an aborted signal rejects with, and line 52's new Error(`HTTP ${res.status}`).
NetworkErrors == {[name |-> "TypeError", message |-> "Failed to fetch"]}
AbortError == [name |-> "AbortError", message |-> "The user aborted a request."]
HttpError(status) == [name |-> "Error", message |-> "HTTP " \o ToString(status)]

\* String(e.message || e)
ErrorText(e) == IF e.message # "" THEN e.message ELSE e.name

Entry(r, c) == [role |-> r, content |-> c]

-----------------------------------------------------------------------------
(* String.prototype.trim on a sequence of code points. *)

\* ECMAScript WhiteSpace and LineTerminator code points.
IsSpace(c) ==
  \/ c \in {9, 10, 11, 12, 13, 32, 160, 5760, 8232, 8233, 8239, 8287, 12288, 65279}
  \/ c \in 8192..8202

RECURSIVE TrimStart(_)
TrimStart(s) ==
  IF s # <<>> /\ IsSpace(Head(s)) THEN TrimStart(Tail(s)) ELSE s

RECURSIVE TrimEnd(_)
TrimEnd(s) ==
  IF s # <<>> /\ IsSpace(s[Len(s)]) THEN TrimEnd(SubSeq(s, 1, Len(s) - 1)) ELSE s

Trim(s) == TrimEnd(TrimStart(s))

-----------------------------------------------------------------------------
(* new TextDecoder() and decoder.decode(value, {stream: true}): the WHATWG *)
(* UTF-8 decoder, non-fatal, whose state outlives a call.  `bom` is the    *)
(* "BOM seen" flag: the first code point is dropped when it is U+FEFF.     *)

Replacement == 65533

NewDecoder ==
  [cp |-> 0, seen |-> 0, needed |-> 0, lower |-> 128, upper |-> 191, bom |-> FALSE]

Rearm(d) == [d EXCEPT !.cp = 0, !.seen = 0, !.needed = 0, !.lower = 128, !.upper = 191]

\* One byte through the decoder: <<next decoder, code points emitted>>.
RECURSIVE DecodeByte(_, _)
DecodeByte(d, b) ==
  IF d.needed = 0
  THEN CASE b \in 0..127 -> <<d, <<b>>>>
         [] b \in 194..223 -> <<[d EXCEPT !.needed = 1, !.cp = b % 32], <<>>>>
         [] b \in 224..239 ->
              <<[d EXCEPT !.needed = 2, !.cp = b % 16,
                          !.lower = IF b = 224 THEN 160 ELSE 128,
                          !.upper = IF b = 237 THEN 159 ELSE 191], <<>>>>
         [] b \in 240..244 ->
              <<[d EXCEPT !.needed = 3, !.cp = b % 8,
                          !.lower = IF b = 240 THEN 144 ELSE 128,
                          !.upper = IF b = 244 THEN 143 ELSE 191], <<>>>>
         [] OTHER -> <<d, <<Replacement>>>>
  ELSE IF b \notin d.lower..d.upper
       THEN \* the byte is put back and read again by the rearmed decoder
            LET again == DecodeByte(Rearm(d), b)
            IN  <<again[1], <<Replacement>> \o again[2]>>
       ELSE LET cp == d.cp * 64 + (b % 64)
            IN  IF d.seen + 1 = d.needed
                THEN <<Rearm(d), <<cp>>>>
                ELSE <<[d EXCEPT !.cp = cp, !.seen = d.seen + 1,
                                 !.lower = 128, !.upper = 191], <<>>>>

RECURSIVE DecodeBytes(_, _)
DecodeBytes(d, bytes) ==
  IF bytes = <<>> THEN <<d, <<>>>>
  ELSE LET one == DecodeByte(d, Head(bytes))
           rest == DecodeBytes(one[1], Tail(bytes))
       IN  <<rest[1], one[2] \o rest[2]>>

\* A variant of Decode without {stream: true}: every call starts from a fresh
\* decoder and ends an incomplete sequence with U+FFFD.
Decode_Stateless(d, bytes) ==
  LET r == DecodeBytes(NewDecoder, bytes)
      out == r[2] \o (IF r[1].needed # 0 THEN <<Replacement>> ELSE <<>>)
  IN  <<NewDecoder,
        IF out # <<>> /\ Head(out) = 65279 THEN Tail(out) ELSE out>>

\* decoder.decode(value, {stream: true}): <<next decoder, text returned>>.
Decode(d, bytes) ==
  LET r == DecodeBytes(d, bytes)
      out == r[2]
  IN  IF d.bom \/ out = <<>> THEN <<r[1], out>>
      ELSE <<[r[1] EXCEPT !.bom = TRUE],
             IF Head(out) = 65279 THEN Tail(out) ELSE out>>

-----------------------------------------------------------------------------
(* useLocalStorage (lines 205-221). *)

\* The useState initializer: localStorage.getItem(key), else initialValue.
LoadSetting(st, throws, key, initialValue) ==
  IF throws THEN initialValue
  ELSE IF st[key].present THEN st[key].value ELSE initialValue

\* A variant of the effect that stores the empty value instead of removing
\* the key.
PersistSetting_StoresEmpty(st, throws, key, val) ==
  IF throws THEN st ELSE [st EXCEPT ![key] = Item(val)]

\* The effect that runs after a render in which val changed.
PersistSetting(st, throws, key, val) ==
  IF throws THEN st
  ELSE IF val = "" THEN [st EXCEPT ![key] = NoItem]
       ELSE [st EXCEPT ![key] = Item(val)]

-----------------------------------------------------------------------------
(* The state after App() is first rendered, before its effects run. *)

\* lastOp: the step's name, the send it belongs to, and the response or the
\* exception the step resumed with, where it has them.
NoResponse == [ok |-> FALSE, status |-> 0, body |-> FALSE]
NoError == [name |-> "", message |-> ""]
Op(op, id, res, e) == [op |-> op, id |-> id, res |-> res, e |-> e]

InitWith(throws) ==
  /\ storageThrows = throws
  /\ store \in [Keys -> StoredBase \cup StoredToken]
  /\ store[KeyBase] \in StoredBase
  /\ store[KeyToken] \in StoredToken
  /\ storageThrows => store = [k \in Keys |-> NoItem]
  /\ apiBase = LoadSetting(store, storageThrows, KeyBase, DefaultBase)
  /\ token = LoadSetting(store, storageThrows, KeyToken, DefaultToken)
  /\ mounted = FALSE
  /\ input = <<>>
  /\ messages = <<Entry("assistant", WelcomeText)>>
  /\ isSending = FALSE
  /\ error = ""
  /\ abortRef = 0
  /\ sends = <<>>
  /\ nSends = 0
  /\ resets = 0
  /\ nChunks = 0
  /\ nResets = 0
  /\ lastOp = Op("init", 0, NoResponse, NoError)

\* A browser whose localStorage works; one whose localStorage may throw.
Init == InitWith(FALSE)
InitAnyStorage == \E throws \in BOOLEAN : InitWith(throws)

chatVars == <<input, messages, isSending, error, abortRef, sends, nSends,
              resets, nChunks, nResets>>

\* The first run of the two useLocalStorage effects.
Mount ==
  /\ ~mounted
  /\ mounted' = TRUE
  /\ store' = PersistSetting(PersistSetting(store, storageThrows, KeyBase, apiBase),
                             storageThrows, KeyToken, token)
  /\ lastOp' = Op("mount", 0, NoResponse, NoError)
  /\ UNCHANGED <<apiBase, token, storageThrows>>
  /\ UNCHANGED chatVars

-----------------------------------------------------------------------------
(* Settings bar (lines 116-140) and composer (line 170). *)

setApiBase(v) ==
  /\ mounted
  /\ apiBase' = v
  /\ store' = IF v = apiBase THEN store
              ELSE PersistSetting(store, storageThrows, KeyBase, v)
  /\ lastOp' = Op("onChange", 0, NoResponse, NoError)
  /\ UNCHANGED <<token, storageThrows, mounted>>
  /\ UNCHANGED chatVars

setToken(v) ==
  /\ mounted
  /\ token' = v
  /\ store' = IF v = token THEN store
              ELSE PersistSetting(store, storageThrows, KeyToken, v)
  /\ lastOp' = Op("onChange", 0, NoResponse, NoError)
  /\ UNCHANGED <<apiBase, storageThrows, mounted>>
  /\ UNCHANGED chatVars

\* The settings Reset button: the two removeItem calls are outside any try,
\* so a throwing storage ends the handler before setApiBase("").
clearSettings ==
  /\ mounted
  /\ IF storageThrows
     THEN UNCHANGED <<apiBase, token, store>>
     ELSE /\ apiBase' = ""
          /\ token' = ""
          /\ store' = [k \in Keys |-> NoItem]
  /\ lastOp' = Op("clearSettings", 0, NoResponse, NoError)
  /\ UNCHANGED <<storageThrows, mounted>>
  /\ UNCHANGED chatVars

setInput(v) ==
  /\ mounted
  /\ input' = v
  /\ lastOp' = Op("onChange", 0, NoResponse, NoError)
  /\ UNCHANGED settingsVars
  /\ UNCHANGED <<messages, isSending, error, abortRef, sends, nSends, resets,
                 nChunks, nResets>>

-----------------------------------------------------------------------------
(* send (lines 26-82). *)

Truthy(str) == str # ""

\* Variants of canSend: the input not trimmed, the token not required, the
\* sending-state not consulted.
canSend_Untrimmed ==
  Truthy(apiBase) /\ Truthy(token) /\ Len(input) > 0 /\ ~isSending
canSend_AnyToken ==
  Truthy(apiBase) /\ Len(Trim(input)) > 0 /\ ~isSending
canSend_WhileSending ==
  Truthy(apiBase) /\ Truthy(token) /\ Len(Trim(input)) > 0

canSend ==
  Truthy(apiBase) /\ Truthy(token) /\ Len(Trim(input)) > 0 /\ ~isSending

\* send() calls that have not yet run their finally block.
InFlight == DOMAIN sends

\* A function with one more, or one fewer, argument.
With(f, k, v) == [x \in DOMAIN f \cup {k} |-> IF x = k THEN v ELSE f[x]]
Without(f, k) == [x \in DOMAIN f \ {k} |-> f[x]]

\* A variant of UserMsg that stores the trimmed prompt.
UserMsg_Trimmed(text) == Entry("user", Trim(text))

\* Lines 33 and 34.
UserMsg(text) == Entry("user", text)
AssistantMsg == Entry("assistant", <<>>)

\* Lines 30-40, up to the first await: the fetch is issued with the new
\* controller's signal.  The closure keeps userMsg.content (prompt), the
\* controller (aborted), later the decoder; `received` and `target` record
\* the text the body has delivered and the index of the assistant entry the
\* call appended.
send ==
  /\ mounted
  /\ IF ~canSend
     THEN /\ lastOp' = Op("send.noop", 0, NoResponse, NoError)
          /\ UNCHANGED chatVars
     ELSE /\ nSends < MaxSends
          /\ nSends' = nSends + 1
          /\ error' = ""
          /\ messages' = messages \o <<UserMsg(input), AssistantMsg>>
          /\ input' = <<>>
          /\ abortRef' = nSends + 1
          /\ isSending' = TRUE
          /\ sends' = With(sends, nSends + 1,
                           [pc |-> "fetch", prompt |-> input, aborted |-> FALSE,
                            decoder |-> NewDecoder, received |-> <<>>,
                            target |-> Len(messages) + 2])
          /\ lastOp' = Op("send", nSends + 1, NoResponse, NoError)
          /\ UNCHANGED <<resets, nChunks, nResets>>
  /\ UNCHANGED settingsVars

\* Variants of Catch: one shows a cancellation like any other exception, one
\* swallows every exception.
Catch_ShowsAbort(e) == ErrorText(e)
Catch_SwallowsAll(e) == error

\* Lines 73-77: the banner after exception e reaches the catch.
Catch(e) == IF e.name # "AbortError" THEN ErrorText(e) ELSE error

\* A variant of Finally that leaves the sending-state as it is.
Finally_KeepsSending(i) ==
  /\ isSending' = isSending
  /\ abortRef' = 0
  /\ sends' = Without(sends, i)

\* Lines 78-81; the call is over and its closure is dropped.
Finally(i) ==
  /\ isSending' = FALSE
  /\ abortRef' = 0
  /\ sends' = Without(sends, i)

\* Line 52: the exception thrown for a response that is not ok or has no body.
StatusError(res) == HttpError(res.status)

\* Line 43 resumes with a response; line 52 may throw.
fetchResolved(i, res) ==
  /\ sends[i].pc = "fetch"
  /\ ~sends[i].aborted
  /\ IF ~res.ok \/ ~res.body
     THEN /\ error' = Catch(StatusError(res))
          /\ Finally(i)
     ELSE /\ sends' = [sends EXCEPT ![i].pc = "read", ![i].decoder = NewDecoder]
          /\ UNCHANGED <<error, isSending, abortRef>>
  /\ lastOp' = Op("fetch.resolved", i, res, NoError)
  /\ UNCHANGED settingsVars
  /\ UNCHANGED <<input, messages, nSends, resets, nChunks, nResets>>

\* Line 43 resumes with a rejection: a network failure, or the abort.
fetchRejected(i, e) ==
  /\ sends[i].pc = "fetch"
  /\ (e = AbortError) <=> sends[i].aborted
  /\ error' = Catch(e)
  /\ Finally(i)
  /\ lastOp' = Op("fetch.rejected", i, NoResponse, e)
  /\ UNCHANGED settingsVars
  /\ UNCHANGED <<input, messages, nSends, resets, nChunks, nResets>>

\* Variants of the updater: one rewrites the entry before the last, one
\* appends a new entry for every chunk.
AppendToLast_Previous(m, chunk) ==
  LET k == IF Len(m) > 1 THEN Len(m) - 1 ELSE Len(m)
  IN  [m EXCEPT ![k] = Entry("assistant", m[k].content \o chunk)]
AppendToLast_NewEntry(m, chunk) == Append(m, Entry("assistant", chunk))

\* Lines 63-70: the updater given to setMessages.
AppendToLast(m, chunk) ==
  [m EXCEPT ![Len(m)] = Entry("assistant", m[Len(m)].content \o chunk)]

\* Line 59 resumes with {value, done: false}; lines 61-71.
readChunk(i, value) ==
  /\ sends[i].pc = "read"
  /\ ~sends[i].aborted
  /\ nChunks < MaxChunks
  /\ nChunks' = nChunks + 1
  /\ LET r == Decode(sends[i].decoder, value)
     IN  /\ messages' = AppendToLast(messages, r[2])
         /\ sends' = [sends EXCEPT ![i].decoder = r[1],
                                   ![i].received = sends[i].received \o r[2]]
  /\ lastOp' = Op("read.chunk", i, NoResponse, NoError)
  /\ UNCHANGED settingsVars
  /\ UNCHANGED <<input, isSending, error, abortRef, nSends, resets, nResets>>

\* Line 59 resumes with {value: undefined, done: true}: the loop ends.
readDone(i) ==
  /\ sends[i].pc = "read"
  /\ ~sends[i].aborted
  /\ Finally(i)
  /\ lastOp' = Op("read.done", i, NoResponse, NoError)
  /\ UNCHANGED settingsVars
  /\ UNCHANGED <<input, messages, error, nSends, resets, nChunks, nResets>>

\* Line 59 resumes with a rejection: the body stream broke, or the abort.
readRejected(i, e) ==
  /\ sends[i].pc = "read"
  /\ (e = AbortError) <=> sends[i].aborted
  /\ error' = Catch(e)
  /\ Finally(i)
  /\ lastOp' = Op("read.rejected", i, NoResponse, e)
  /\ UNCHANGED settingsVars
  /\ UNCHANGED <<input, messages, nSends, resets, nChunks, nResets>>

\* A variant of cancel that signals nothing.
cancel_Forgets ==
  /\ mounted
  /\ lastOp' = Op("cancel", abortRef, NoResponse, NoError)
  /\ UNCHANGED settingsVars
  /\ UNCHANGED chatVars

\* Lines 84-86: abortRef.current?.abort().
cancel ==
  /\ mounted
  /\ sends' = IF abortRef \in DOMAIN sends
              THEN [sends EXCEPT ![abortRef].aborted = TRUE]
              ELSE sends
  /\ lastOp' = Op("cancel", abortRef, NoResponse, NoError)
  /\ UNCHANGED settingsVars
  /\ UNCHANGED <<input, messages, isSending, error, abortRef, nSends, resets,
                 nChunks, nResets>>

-----------------------------------------------------------------------------
(* resetChat (lines 96-109). *)

\* Variants: a reset that appends the confirmation instead of replacing the
\* transcript; a catch that sets no banner.
ResetTranscript_Appends(m) == Append(m, Entry("assistant", ResetText))
ResetCatch_Silent(e) == error

\* Line 104: the value given to setMessages.
ResetTranscript(m) == <<Entry("assistant", ResetText)>>

\* Lines 105-108: the banner after exception e reaches the catch.
ResetCatch(e) == ErrorText(e)

\* Lines 97-102, up to the await.
resetChat ==
  /\ mounted
  /\ nResets < MaxResets
  /\ nResets' = nResets + 1
  /\ error' = ""
  /\ resets' = resets + 1
  /\ lastOp' = Op("resetChat", 0, NoResponse, NoError)
  /\ UNCHANGED settingsVars
  /\ UNCHANGED <<input, messages, isSending, abortRef, sends, nSends, nChunks>>

\* A variant of the resumption whose success also ends the send in flight.
resetResolved_EndsSend(res) ==
  /\ resets > 0
  /\ resets' = resets - 1
  /\ IF ~res.ok
     THEN /\ error' = ResetCatch(HttpError(res.status))
          /\ UNCHANGED <<messages, isSending, abortRef, sends>>
     ELSE /\ messages' = ResetTranscript(messages)
          /\ isSending' = FALSE
          /\ abortRef' = 0
          /\ sends' = <<>>
          /\ UNCHANGED error
  /\ lastOp' = Op("reset.resolved", 0, res, NoError)
  /\ UNCHANGED settingsVars
  /\ UNCHANGED <<input, nSends, nChunks, nResets>>

\* Line 99 resumes with a response; line 103 may throw into lines 105-108.
resetResolved(res) ==
  /\ resets > 0
  /\ resets' = resets - 1
  /\ IF ~res.ok
     THEN /\ error' = ResetCatch(HttpError(res.status))
          /\ UNCHANGED messages
     ELSE /\ messages' = ResetTranscript(messages)
          /\ UNCHANGED error
  /\ lastOp' = Op("reset.resolved", 0, res, NoError)
  /\ UNCHANGED settingsVars
  /\ UNCHANGED <<input, isSending, abortRef, sends, nSends, nChunks, nResets>>

\* Line 99 resumes with a rejection.
resetRejected(e) ==
  /\ resets > 0
  /\ resets' = resets - 1
  /\ error' = ResetCatch(e)
  /\ lastOp' = Op("reset.rejected", 0, NoResponse, e)
  /\ UNCHANGED settingsVars
  /\ UNCHANGED <<input, messages, isSending, abortRef, sends, nSends, nChunks,
                 nResets>>

-----------------------------------------------------------------------------

Next ==
  \/ Mount
  \/ \E v \in BaseValues : setApiBase(v)
  \/ \E v \in TokenValues : setToken(v)
  \/ clearSettings
  \/ \E v \in InputValues : setInput(v)
  \/ send
  \/ cancel
  \/ \E i \in DOMAIN sends, res \in {OkResponse} \cup BadResponses : fetchResolved(i, res)
  \/ \E i \in DOMAIN sends, e \in NetworkErrors \cup {AbortError} : fetchRejected(i, e)
  \/ \E i \in DOMAIN sends, value \in ChunkValues : readChunk(i, value)
  \/ \E i \in DOMAIN sends : readDone(i)
  \/ \E i \in DOMAIN sends, e \in NetworkErrors \cup {AbortError} : readRejected(i, e)
  \/ resetChat
  \/ \E res \in {OkResponse} \cup ResetBadResponses : resetResolved(res)
  \/ \E e \in NetworkErrors : resetRejected(e)

Spec == Init /\ [][Next]_vars

\* The same program in a browser whose localStorage may throw on every access.
SpecAnyStorage == InitAnyStorage /\ [][Next]_vars

\* An aborted signal rejects the pending fetch() or read() with AbortError,
\* and the rejection resumes the call.
FairSpec ==
  /\ Spec
  /\ WF_vars(\E i \in DOMAIN sends : fetchRejected(i, AbortError))
  /\ WF_vars(\E i \in DOMAIN sends : readRejected(i, AbortError))

-----------------------------------------------------------------------------
(* One response body read to its end (lines 54-72): the server's text,     *)
(* encoded as UTF-8, reaches the read loop cut into chunks at any byte.    *)

MaxTextLen == 2

\* Code points of 1, 2, 3 and 4 bytes, and U+FEFF.
CodePoints == {97, 233, 8364, 128512, 65279}
Texts == UNION {[1..n -> CodePoints] : n \in 0..MaxTextLen}

\* UTF-8 of one code point, of a text.
EncodeCodePoint(cp) ==
  IF cp < 128 THEN <<cp>>
  ELSE IF cp < 2048 THEN <<192 + (cp \div 64), 128 + (cp % 64)>>
  ELSE IF cp < 65536
       THEN <<224 + (cp \div 4096), 128 + ((cp \div 64) % 64), 128 + (cp % 64)>>
       ELSE <<240 + (cp \div 262144), 128 + ((cp \div 4096) % 64),
              128 + ((cp \div 64) % 64), 128 + (cp % 64)>>

RECURSIVE Encode(_)
Encode(text) ==
  IF text = <<>> THEN <<>> ELSE EncodeCodePoint(Head(text)) \o Encode(Tail(text))

\* The state after send() and an ok response whose body will carry `text`:
\* the closure also holds the text and the bytes not yet read.
InitDecode ==
  /\ storageThrows = FALSE
  /\ store = [k \in Keys |-> IF k = KeyBase THEN Item("http://localhost:8000") ELSE Item("t")]
  /\ apiBase = "http://localhost:8000"
  /\ token = "t"
  /\ mounted = TRUE
  /\ input = <<>>
  /\ messages = <<Entry("assistant", WelcomeText), UserMsg(<<104>>), AssistantMsg>>
  /\ isSending = TRUE
  /\ error = ""
  /\ abortRef = 1
  /\ \E text \in Texts :
       sends = With(<<>>, 1,
                    [pc |-> "read", prompt |-> <<104>>, aborted |-> FALSE,
                     decoder |-> NewDecoder, received |-> <<>>, target |-> 3,
                     text |-> text, body |-> Encode(text)])
  /\ nSends = 1
  /\ resets = 0
  /\ nChunks = 0
  /\ nResets = 0
  /\ lastOp = Op("fetch.resolved", 1, OkResponse, NoError)

\* Line 59 resumes with the next n bytes of the body; lines 61-71.
readBody(i, n) ==
  /\ sends[i].pc = "read"
  /\ ~sends[i].aborted
  /\ n \in 1..Len(sends[i].body)
  /\ nChunks' = nChunks + 1
  /\ LET value == SubSeq(sends[i].body, 1, n)
         r == Decode(sends[i].decoder, value)
     IN  /\ messages' = AppendToLast(messages, r[2])
         /\ sends' = [sends EXCEPT
                        ![i].decoder = r[1],
                        ![i].received = sends[i].received \o r[2],
                        ![i].body = SubSeq(sends[i].body, n + 1, Len(sends[i].body))]
  /\ lastOp' = Op("read.chunk", i, NoResponse, NoError)
  /\ UNCHANGED settingsVars
  /\ UNCHANGED <<input, isSending, error, abortRef, nSends, resets, nResets>>

\* Line 59 resumes with done once the body is exhausted.
bodyDone(i) ==
  /\ sends[i].body = <<>>
  /\ readDone(i)

NextDecode ==
  \/ \E i \in DOMAIN sends, n \in 1..(4 * MaxTextLen) : readBody(i, n)
  \/ \E i \in DOMAIN sends : bodyDone(i)

SpecDecode == InitDecode /\ [][NextDecode]_vars

-----------------------------------------------------------------------------
(* Properties. *)

\* The send precondition in the words of the specification.
HasText(text) == \E k \in 1..Len(text) : ~IsSpace(text[k])
SendAllowed == apiBase # "" /\ token # "" /\ HasText(input) /\ ~isSending

\* A step taken by an invocation of send(), accepted or not.
SendInvoked == lastOp'.op \in {"send", "send.noop"}

\* C1: when the stream of an accepted send reaches end-of-stream, the
\* assistant entry that send appended holds exactly the concatenation, in
\* order, of the text chunks the stream delivered.
C1_StreamConcatenated ==
  [][\A i \in DOMAIN sends :
       (lastOp'.op = "read.done" /\ lastOp'.id = i /\ i \notin DOMAIN sends')
         => /\ Len(messages') >= sends[i].target
            /\ messages'[sends[i].target] = Entry("assistant", sends[i].received)]_vars

\* C2: in every state canSend is true exactly when the endpoint base is
\* non-empty, the token is non-empty, the input has a non-whitespace
\* character and no send is in progress.
C2_CanSendExactly == canSend <=> SendAllowed

C2_Witness ==
  /\ canSend
  /\ input # Trim(input)
  /\ nSends > 0

\* C3: send() invoked where the precondition is false changes nothing: not
\* the transcript, the input, the banner, the sending-state, the request
\* handle, and no request is issued.
C3_SendNoOp ==
  [][(SendInvoked /\ ~SendAllowed)
       => UNCHANGED <<messages, input, error, isSending, abortRef, sends, nSends>>]_vars

C3_Witness ==
  /\ lastOp.op = "send.noop"
  /\ token = ""
  /\ apiBase # ""
  /\ HasText(input)
  /\ Len(messages) = 1

\* C4: send() invoked where the precondition is true appends a user entry
\* with the raw input and an empty assistant entry after the unchanged
\* earlier entries, clears the input and the banner, sets the sending-state
\* and installs the handle of a request it has just issued.
C4_SendAccepted ==
  [][(SendInvoked /\ SendAllowed)
       => /\ messages' = messages \o <<Entry("user", input), Entry("assistant", <<>>)>>
          /\ input' = <<>>
          /\ error' = ""
          /\ isSending' = TRUE
          /\ abortRef' # 0
          /\ DOMAIN sends' = DOMAIN sends \cup {abortRef'}
          /\ abortRef' \notin DOMAIN sends
          /\ sends'[abortRef'].pc = "fetch"
          /\ sends'[abortRef'].prompt = input]_vars

C4_Witness ==
  /\ lastOp.op = "send"
  /\ Len(messages) = 5
  /\ messages[4].content # Trim(messages[4].content)
  /\ messages[3].content # <<>>
  /\ isSending

\* C5: at most one send is in flight at any time, and the request handle,
\* when installed, is that send's.
C5_OneSendInFlight ==
  /\ Cardinality(InFlight) <= 1
  /\ abortRef # 0 => InFlight = {abortRef}

C5_Witness ==
  /\ nSends = 2
  /\ InFlight = {2}
  /\ sends[2].pc = "read"
  /\ Len(messages) = 5
  /\ messages[3].content # <<>>
  /\ messages[5].content # <<>>

\* C6: cancel() while a send is streaming rolls nothing back and sets no
\* banner; once the signal is aborted the stream appends no further
\* fragment, and the send then ends without touching the transcript or the
\* banner, with the sending-state false.
C6_CancelMidStream ==
  [][/\ lastOp'.op = "cancel" => (messages' = messages /\ error' = error)
     /\ \A i \in DOMAIN sends :
          (sends[i].pc = "read" /\ sends[i].aborted)
            => IF i \in DOMAIN sends'
               THEN /\ sends'[i].received = sends[i].received
                    /\ (messages' = messages \/ lastOp'.op = "reset.resolved")
               ELSE /\ messages' = messages
                    /\ error' = error
                    /\ isSending' = FALSE]_vars

C6_Witness ==
  /\ lastOp.op = "read.rejected"
  /\ lastOp.e = AbortError
  /\ Len(messages) = 3
  /\ messages[3].content = <<233>>
  /\ error = ""
  /\ ~isSending

\* C7: whichever way an accepted send ends, the step that ends it leaves the
\* sending-state false and the request handle cleared.
C7_SendAlwaysCleansUp ==
  [][\A i \in DOMAIN sends :
       i \notin DOMAIN sends' => (isSending' = FALSE /\ abortRef' = 0)]_vars

C7_Witness ==
  /\ lastOp.op = "read.rejected"
  /\ lastOp.e \in NetworkErrors
  /\ ~isSending
  /\ abortRef = 0
  /\ error = "Failed to fetch"

\* C8: after a resetChat request completes with a success status the
\* transcript is exactly one assistant entry holding the confirmation text,
\* whatever it held before.
C8_ResetReplacesTranscript ==
  (lastOp.op = "reset.resolved" /\ lastOp.res.ok)
    => messages = <<[role |-> "assistant", content |-> ResetText]>>

C8_Witness ==
  /\ lastOp.op = "reset.resolved"
  /\ lastOp.res.ok
  /\ nSends = 2
  /\ nChunks > 0
  /\ InFlight # {}

\* C9: a resetChat whose request fails (a non-success status or a network
\* error) does not change the transcript, neither when it is invoked nor
\* when the failure arrives, and sets the banner to the failure's detail.
C9_ResetFailureKeepsTranscript ==
  [][/\ lastOp'.op = "resetChat" => messages' = messages
     /\ (lastOp'.op = "reset.resolved" /\ ~lastOp'.res.ok)
          => /\ messages' = messages
             /\ error' = "HTTP " \o ToString(lastOp'.res.status)
     /\ lastOp'.op = "reset.rejected"
          => /\ messages' = messages
             /\ error' = lastOp'.e.message
             /\ error' # ""]_vars

C9_Witness ==
  /\ lastOp.op = "reset.resolved"
  /\ lastOp.res.status = 500
  /\ error = "HTTP 500"
  /\ Len(messages) = 3
  /\ messages[3].content # <<>>

\* C10: when the /generate_stream response is not successful or has no
\* body, the send sets the banner to the HTTP status, clears the
\* sending-state, and the user entry and the empty assistant entry it
\* appended are still in the transcript, unfilled.
C10_BadResponse ==
  [][\A i \in DOMAIN sends :
       (/\ lastOp'.op = "fetch.resolved"
        /\ lastOp'.id = i
        /\ sends[i].pc = "fetch"
        /\ (~lastOp'.res.ok \/ ~lastOp'.res.body))
         => /\ error' = "HTTP " \o ToString(lastOp'.res.status)
            /\ isSending' = FALSE
            /\ i \notin DOMAIN sends'
            /\ Len(messages') >= sends[i].target
            /\ messages'[sends[i].target] = Entry("assistant", <<>>)
            /\ messages'[sends[i].target - 1] = Entry("user", sends[i].prompt)]_vars

\* The steps that end a send.
SendEnded(i) == i \in DOMAIN sends /\ i \notin DOMAIN sends'

\* C11: a send ended by an exception sets the banner exactly when the
\* exception is not a cancellation: an AbortError leaves the banner as it
\* was, any other exception (the HTTP error of line 52, a rejected fetch, a
\* broken body stream) sets it to the exception's message; a send that ends
\* without an exception leaves the banner alone.
C11_BannerIffNotCancelled ==
  [][\A i \in DOMAIN sends :
       SendEnded(i) =>
         CASE lastOp'.op = "fetch.resolved" ->
                error' = "HTTP " \o ToString(lastOp'.res.status)
           [] lastOp'.op \in {"fetch.rejected", "read.rejected"} ->
                IF lastOp'.e.name = "AbortError"
                THEN error' = error
                ELSE error' = lastOp'.e.message /\ error' # ""
           [] OTHER -> error' = error]_vars

C11_Witness ==
  /\ lastOp.op = "read.rejected"
  /\ lastOp.e = AbortError
  /\ error = "HTTP 500"
  /\ ~isSending

\* The value a setting has in the store when the store agrees with it.
Persisted(val) == IF val = "" THEN NoItem ELSE Item(val)

\* C12: once the effects have run, the store agrees with the last operation
\* on each key: a non-empty value is persisted and a reload reads it back,
\* an empty value leaves the key absent, and the clear action leaves both
\* keys absent and both in-memory values empty.
C12_StoreAgrees ==
  mounted =>
    /\ store[KeyBase] = Persisted(apiBase)
    /\ store[KeyToken] = Persisted(token)
    /\ apiBase # "" => LoadSetting(store, storageThrows, KeyBase, DefaultBase) = apiBase
    /\ token # "" => LoadSetting(store, storageThrows, KeyToken, DefaultToken) = token
    /\ lastOp.op = "clearSettings"
         => /\ store = [k \in Keys |-> NoItem]
            /\ apiBase = ""
            /\ token = ""

C12_Witness ==
  /\ lastOp.op = "clearSettings"
  /\ nSends = 1
  /\ isSending
  /\ store = [k \in Keys |-> NoItem]

\* C13: at startup, a setting whose persisted value is absent or the empty
\* string has the build-time default in memory; otherwise it has the
\* persisted value.
C13_StartupFallback ==
  ~mounted =>
    /\ apiBase = IF store[KeyBase] \in {NoItem, Item("")} THEN DefaultBase
                ELSE store[KeyBase].value
    /\ token = IF store[KeyToken] \in {NoItem, Item("")} THEN DefaultToken
              ELSE store[KeyToken].value

\* C14: where localStorage throws, every settings operation still has its
\* in-memory effect and sets no banner: at startup the defaults are in
\* memory, an edit leaves the banner alone, and the clear action leaves both
\* in-memory values empty.
C14_StorageErrorsSwallowed ==
  [][storageThrows =>
       /\ lastOp'.op = "mount"
            => (apiBase' = DefaultBase /\ token' = DefaultToken /\ error' = error)
       /\ lastOp'.op = "onChange" => error' = error
       /\ lastOp'.op = "clearSettings"
            => (apiBase' = "" /\ token' = "" /\ error' = error)]_vars

\* C15: however the UTF-8 bytes of a text are cut into chunks, once the whole
\* body has been read the assistant entry holds exactly what decoding the
\* uncut bytes gives (the text itself, less a leading U+FEFF), with no U+FFFD;
\* before that it holds a prefix of it.
C15_SplitDecoding ==
  \A i \in DOMAIN sends :
    LET whole == Decode(NewDecoder, Encode(sends[i].text))[2]
        content == messages[sends[i].target].content
    IN  /\ Len(content) <= Len(whole)
        /\ content = SubSeq(whole, 1, Len(content))
        /\ \A k \in 1..Len(content) : content[k] # Replacement
        /\ sends[i].body = <<>>
             => /\ content = whole
                /\ content = IF sends[i].text # <<>> /\ Head(sends[i].text) = 65279
                              THEN Tail(sends[i].text) ELSE sends[i].text

\* The euro sign and the emoji arrived one byte per chunk.
C15_Witness ==
  /\ 1 \in DOMAIN sends
  /\ sends[1].text = <<8364, 128512>>
  /\ sends[1].body = <<>>
  /\ nChunks = 7
  /\ messages[3].content = <<8364, 128512>>
  /\ lastOp.op = "read.chunk"

\* The content of the transcript's last entry.
LastContent(m) == m[Len(m)].content

ProperPrefix(a, b) == Len(a) < Len(b) /\ a = SubSeq(b, 1, Len(a))

\* C16: while sending-state is true, every step that changes the content of
\* the transcript's last entry leaves the old content as a proper prefix of
\* the new content.
C16_TargetAppendOnly ==
  [][(isSending /\ LastContent(messages') # LastContent(messages))
       => ProperPrefix(LastContent(messages), LastContent(messages'))]_vars

\* A /reset call has just succeeded.
ResetSucceeded == lastOp'.op = "reset.resolved" /\ lastOp'.res.ok

\* C17: every step other than a successful resetChat keeps the transcript
\* at least as long and leaves every entry but the last as it was.
C17_EarlierEntriesKept ==
  [][~ResetSucceeded =>
       /\ Len(messages') >= Len(messages)
       /\ \A k \in 1..(Len(messages) - 1) : messages'[k] = messages[k]]_vars

\* A second answer is streaming below a first exchange that is still intact.
C17_Witness ==
  /\ lastOp.op = "read.chunk"
  /\ Len(messages) = 5
  /\ messages[1].content = WelcomeText
  /\ messages[2] = UserMsg(<<32, 104, 32>>)
  /\ messages[3].content = <<97>>
  /\ messages[5].content = <<97>>

\* C19: the transcript is never empty and its roles alternate, starting and
\* ending with assistant.
C19_RolesAlternate ==
  /\ Len(messages) >= 1
  /\ messages[1].role = "assistant"
  /\ messages[Len(messages)].role = "assistant"
  /\ \A k \in 1..Len(messages) :
       messages[k].role = IF k % 2 = 1 THEN "assistant" ELSE "user"

\* The stream appender has rewritten the last of five entries.
C19_Witness ==
  /\ lastOp.op = "read.chunk"
  /\ Len(messages) = 5
  /\ messages[4].role = "user"
  /\ messages[5] = Entry("assistant", <<233>>)

\* C18: after cancel() on a request in flight the sending-state eventually
\* becomes false, whatever the server does; and the sending-state becomes
\* false only when the call resumes with a bad response, end-of-stream or an
\* exception (the abort included): no step ends a send on its own.
C18_CancelTerminates ==
  /\ (lastOp.op = "cancel" /\ lastOp.id \in DOMAIN sends) ~> ~isSending
  /\ [][(isSending /\ ~isSending')
          => lastOp'.op \in {"fetch.resolved", "fetch.rejected",
                             "read.done", "read.rejected"}]_vars

\* A send cancelled before the server answered has ended.
C18_Witness ==
  /\ lastOp.op = "fetch.rejected"
  /\ lastOp.e = AbortError
  /\ ~isSending
  /\ Len(messages) = 3
  /\ messages[3].content = <<>>

\* The fragment the step has appended for send i.
Fragment(i) ==
  SubSeq(sends'[i].received, Len(sends[i].received) + 1, Len(sends'[i].received))

\* C20: a /reset that succeeds while a send is streaming replaces the
\* transcript and leaves the send as it was (sending-state true, handle
\* live); every fragment read after that is appended to the single entry
\* left, which begins with the reset confirmation text.
C20_ResetDuringStream ==
  [][/\ (ResetSucceeded /\ isSending)
          => /\ isSending'
             /\ abortRef' = abortRef
             /\ abortRef' \in DOMAIN sends'
             /\ sends' = sends
             /\ messages' = <<Entry("assistant", ResetText)>>
     /\ \A i \in DOMAIN sends :
          (lastOp'.op = "read.chunk" /\ lastOp'.id = i /\ Len(messages) < sends[i].target)
            => /\ Len(messages) = 1
               /\ messages' = <<Entry("assistant", messages[1].content \o Fragment(i))>>
               /\ SubSeq(messages'[1].content, 1, Len(ResetText)) = ResetText
               /\ isSending']_vars

\* A fragment has landed on the reset confirmation entry.
C20_Witness ==
  /\ lastOp.op = "read.chunk"
  /\ isSending
  /\ abortRef \in DOMAIN sends
  /\ messages = <<Entry("assistant", ResetText \o <<97>>)>>

====
